---- MODULE Spec2Model ----
(***************************************************************************)
(* The operator library of needle (python/needle/ops.py): every operator's *)
(* compute (forward, on arrays) and gradient (backward, on tensors), over   *)
(* a model of the array backend (numpy) that keeps shapes AND elements.     *)
(*                                                                         *)
(* An array is a record [ok, shape, data]: shape is the sequence of axis    *)
(* sizes, data the elements in row-major (C) order.  A backend call that    *)
(* raises (reshape to another element count, shapes that do not broadcast,  *)
(* an axis out of range) yields Err, and Err propagates through every later *)
(* call, as the exception would.  Elements are exact rationals <<n, d>>.    *)
(* Axis numbers are 0-based as in Python; sequences are 1-based.            *)
(***************************************************************************)
EXTENDS Integers, Sequences, FiniteSets, TLC

VARIABLES pc, tape, grad, ret

vars == <<pc, tape, grad, ret>>

-----------------------------------------------------------------------------
(* Bounds of the model.                                                    *)

\* largest size of one axis in the shape-law specifications
MaxDim == 3
\* largest number of elements of an input array in those specifications
MaxSize == 12
\* largest rank of a Summation / BroadcastTo / Transpose operand
MaxRank == 3
\* largest rank of a MatMul operand
MatMulMaxRank == 3
\* largest axis size of an elementwise operand (rank 0 or 1)
EWMaxDim == 2
\* end-to-end scenario: x has shape (m, n), m <= E2EMaxM, n <= E2EMaxN, and
\* is broadcast k <= E2EMaxK times along the added trailing axis
E2EMaxM == 2
E2EMaxN == 3
E2EMaxK == 4

-----------------------------------------------------------------------------
(* Exact rational arithmetic: the element type.  <<n, d>> with d > 0 and   *)
(* gcd(n, d) = 1.  Untracked stands for every value that is not rational:  *)
(* what the backend produces from a division by zero (inf, -inf, nan) and  *)
(* the irrational values of log and exp.  It absorbs all arithmetic; the   *)
(* actions draw only inputs on which no element becomes Untracked.         *)

Abs(x) == IF x < 0 THEN -x ELSE x

RECURSIVE GCD(_, _)
GCD(a, b) == IF b = 0 THEN a ELSE GCD(b, a % b)

Untracked == <<0, 0>>

Q(n, d) ==
  IF d = 0 THEN Untracked
  ELSE LET g == GCD(Abs(n), Abs(d))
           s == IF d < 0 THEN -1 ELSE 1
       IN  <<(s * n) \div g, (s * d) \div g>>

R(n) == <<n, 1>>

QAdd(x, y) == IF x[2] = 0 \/ y[2] = 0 THEN Untracked
              ELSE Q(x[1] * y[2] + y[1] * x[2], x[2] * y[2])
QMul(x, y) == IF x[2] = 0 \/ y[2] = 0 THEN Untracked
              ELSE Q(x[1] * y[1], x[2] * y[2])
QNeg(x)    == IF x[2] = 0 THEN Untracked ELSE <<-x[1], x[2]>>
QDiv(x, y) == IF x[2] = 0 \/ y[2] = 0 THEN Untracked
              ELSE Q(x[1] * y[2], x[2] * y[1])
QGt(x, y)  == x[2] # 0 /\ y[2] # 0 /\ x[1] * y[2] > y[1] * x[2]
QMax(x, y) == IF x[2] = 0 \/ y[2] = 0 THEN Untracked
              ELSE IF QGt(y, x) THEN y ELSE x

\* x ** e for an integer exponent e (0 ** 0 = 1, as the backend has it)
RECURSIVE QPow(_, _)
QPow(x, e) ==
  IF e = 0 THEN R(1)
  ELSE IF e < 0 THEN QDiv(R(1), QPow(x, -e))
  ELSE QMul(x, QPow(x, e - 1))

-----------------------------------------------------------------------------
(* Shapes and row-major indexing.                                          *)

RECURSIVE Prod(_)
Prod(s) == IF Len(s) = 0 THEN 1 ELSE s[1] * Prod(Tail(s))

Front(s) == SubSeq(s, 1, Len(s) - 1)

\* flat 0-based offset of the multi-index idx (0-based components)
RECURSIVE Ravel(_, _)
Ravel(idx, shape) ==
  IF Len(shape) = 0 THEN 0
  ELSE Ravel(Front(idx), Front(shape)) * shape[Len(shape)] + idx[Len(idx)]

\* multi-index of the flat 0-based offset k
RECURSIVE Unravel(_, _)
Unravel(k, shape) ==
  IF Len(shape) = 0 THEN <<>>
  ELSE Append(Unravel(k \div shape[Len(shape)], Front(shape)),
              k % shape[Len(shape)])

Err == [ok |-> FALSE, shape |-> <<>>, data |-> <<>>]

\* the array of the given shape and row-major elements
Array(shape, data) == [ok |-> TRUE, shape |-> shape, data |-> data]

At(a, idx) == a.data[Ravel(idx, a.shape) + 1]

\* shape s left-padded with 1s to rank n
Pad(s, n) == [i \in 1..n |-> IF i <= n - Len(s) THEN 1 ELSE s[i - (n - Len(s))]]

Max2(a, b) == IF a > b THEN a ELSE b

\* whether two shapes broadcast against each other (trailing alignment)
Broadcastable(s, t) ==
  LET n == Max2(Len(s), Len(t)) IN
  \A i \in 1..n : Pad(s, n)[i] = Pad(t, n)[i] \/ Pad(s, n)[i] = 1 \/ Pad(t, n)[i] = 1

BroadcastShape(s, t) ==
  LET n == Max2(Len(s), Len(t)) IN
  [i \in 1..n |-> IF Pad(s, n)[i] = 1 THEN Pad(t, n)[i] ELSE Pad(s, n)[i]]

\* the index into an operand of shape s that the index idx of the broadcast
\* result reads
BIdx(idx, s) ==
  [i \in 1..Len(s) |-> IF s[i] = 1 THEN 0 ELSE idx[i + Len(idx) - Len(s)]]

-----------------------------------------------------------------------------
(* The array backend (numpy as array_api), as the operators call it.       *)

RECURSIVE QSumSeq(_)
QSumSeq(q) == IF Len(q) = 0 THEN R(0) ELSE QAdd(q[1], QSumSeq(Tail(q)))

\* the elements of a finite set of integers, ascending
RECURSIVE Ascending(_)
Ascending(S) ==
  IF S = {} THEN <<>>
  ELSE LET m == CHOOSE x \in S : \A y \in S : x <= y
       IN  <<m>> \o Ascending(S \ {m})

\* the scalar kernels: x op y on two elements; y is an integer exponent for
\* "pow" and is not read by the unary kernels
Kernel(op, x, y) ==
  CASE op = "add" -> QAdd(x, y)
    [] op = "mul" -> QMul(x, y)
    [] op = "div" -> QDiv(x, y)
    [] op = "pow" -> QPow(x, y)
    [] op = "max" -> QMax(x, y)
    [] op = "gt"  -> IF QGt(x, y) THEN R(1) ELSE R(0)
    [] op = "neg" -> QNeg(x)
    [] op = "log" -> IF x = R(1) THEN R(0) ELSE Untracked
    [] op = "exp" -> IF x = R(0) THEN R(1) ELSE Untracked

\* a binary elementwise kernel on two arrays, with numpy broadcasting
np_ewise(op, a, b) ==
  IF ~a.ok \/ ~b.ok \/ ~Broadcastable(a.shape, b.shape) THEN Err
  ELSE LET sh == BroadcastShape(a.shape, b.shape) IN
       Array(sh, [k \in 1..Prod(sh) |->
                    LET idx == Unravel(k - 1, sh)
                    IN  Kernel(op, At(a, BIdx(idx, a.shape)), At(b, BIdx(idx, b.shape)))])

\* an elementwise kernel on an array and a Python scalar c (unary kernels
\* do not read c)
np_map(op, a, c) ==
  IF ~a.ok THEN Err
  ELSE Array(a.shape, [k \in 1..Len(a.data) |-> Kernel(op, a.data[k], c)])

\* a 0-based axis, negative axes counted from the end
NormAxis(ax, r) == IF ax < 0 THEN ax + r ELSE ax

AxisInRange(ax, r) == -r <= ax /\ ax < r

np_swapaxes(a, axis1, axis2) ==
  IF ~a.ok THEN Err
  ELSE LET r == Len(a.shape) IN
    IF ~AxisInRange(axis1, r) \/ ~AxisInRange(axis2, r) THEN Err
    ELSE LET p == NormAxis(axis1, r) + 1
             q == NormAxis(axis2, r) + 1
             Swap(s) == [i \in 1..r |-> IF i = p THEN s[q]
                                        ELSE IF i = q THEN s[p] ELSE s[i]]
         IN  Array(Swap(a.shape),
                   [k \in 1..Prod(a.shape) |-> At(a, Swap(Unravel(k - 1, Swap(a.shape))))])

np_reshape(a, shape) ==
  IF ~a.ok \/ Prod(shape) # Prod(a.shape) THEN Err
  ELSE Array(shape, a.data)

np_broadcast_to(a, shape) ==
  IF ~a.ok \/ Len(a.shape) > Len(shape) THEN Err
  ELSE LET n == Len(shape) IN
    IF \E i \in 1..n : Pad(a.shape, n)[i] # shape[i] /\ Pad(a.shape, n)[i] # 1
    THEN Err
    ELSE Array(shape, [k \in 1..Prod(shape) |->
                         At(a, BIdx(Unravel(k - 1, shape), a.shape))])

\* axes is [kind |-> "none"] or [kind |-> "tuple", val |-> <<axis, ...>>]
np_sum(a, axes) ==
  IF ~a.ok THEN Err
  ELSE LET r == Len(a.shape) IN
    IF axes.kind = "tuple" /\
       (\/ \E i \in 1..Len(axes.val) : ~AxisInRange(axes.val[i], r)
        \/ \E i, j \in 1..Len(axes.val) :
              i # j /\ NormAxis(axes.val[i], r) = NormAxis(axes.val[j], r))
    THEN Err
    ELSE LET red  == IF axes.kind = "none" THEN 0..(r - 1)
                     ELSE {NormAxis(axes.val[i], r) : i \in 1..Len(axes.val)}
             kept == Ascending((0..(r - 1)) \ red)
             gone == Ascending(red)
             oshape == [j \in 1..Len(kept) |-> a.shape[kept[j] + 1]]
             rshape == [j \in 1..Len(gone) |-> a.shape[gone[j] + 1]]
             Merge(oidx, ridx) ==
               [i \in 1..r |->
                  IF (i - 1) \in red
                  THEN ridx[Cardinality({x \in red : x <= i - 1})]
                  ELSE oidx[Cardinality({x \in (0..(r - 1)) \ red : x <= i - 1})]]
         IN  Array(oshape,
               [o \in 1..Prod(oshape) |->
                  QSumSeq([k \in 1..Prod(rshape) |->
                             At(a, Merge(Unravel(o - 1, oshape), Unravel(k - 1, rshape)))])])

\* matrix product of operands of rank >= 2, batch axes broadcast
np_matmul(a, b) ==
  IF ~a.ok \/ ~b.ok \/ Len(a.shape) < 2 \/ Len(b.shape) < 2 THEN Err
  ELSE LET ra == Len(a.shape)
           rb == Len(b.shape)
           ba == SubSeq(a.shape, 1, ra - 2)
           bb == SubSeq(b.shape, 1, rb - 2)
       IN
    IF a.shape[ra] # b.shape[rb - 1] \/ ~Broadcastable(ba, bb) THEN Err
    ELSE LET batch == BroadcastShape(ba, bb)
             nb == Len(batch)
             inner == a.shape[ra]
             oshape == batch \o <<a.shape[ra - 1], b.shape[rb]>>
         IN  Array(oshape,
               [o \in 1..Prod(oshape) |->
                  LET idx == Unravel(o - 1, oshape)
                      bi == SubSeq(idx, 1, nb)
                  IN  QSumSeq([k \in 1..inner |->
                        QMul(At(a, BIdx(bi, ba) \o <<idx[nb + 1], k - 1>>),
                             At(b, BIdx(bi, bb) \o <<k - 1, idx[nb + 2]>>))])])

-----------------------------------------------------------------------------
(* Tensors.  A tensor is its realized array (shape = the array's shape).   *)
(* A node of the graph records the operator, its parameter, the input      *)
(* tensors and the forward value.  gradient returns either one node or a   *)
(* tuple of nodes: [kind |-> "node" | "tuple", items |-> <<tensor, ...>>]. *)

One(g)      == [kind |-> "node", items |-> <<g>>]
Tuple1(g)   == [kind |-> "tuple", items |-> <<g>>]
Tuple2(g, h) == [kind |-> "tuple", items |-> <<g, h>>]

NoAxes    == [kind |-> "none"]
Axes(v)   == [kind |-> "tuple", val |-> v]
IntAxis(i) == [kind |-> "int", val |-> i]

\* ---- EWiseAdd
EWiseAdd_compute(a, b) == np_ewise("add", a, b)
\* the slip of returning the one gradient once for a two-input operator
EWiseAdd_gradient_single(out_grad, node) == One(out_grad)
EWiseAdd_gradient(out_grad, node) == Tuple2(out_grad, out_grad)
add(a, b) == EWiseAdd_compute(a, b)

\* ---- AddScalar(scalar)
AddScalar_compute(scalar, a) == np_map("add", a, scalar)
AddScalar_gradient(out_grad, node) == One(out_grad)
add_scalar(a, scalar) == AddScalar_compute(scalar, a)

\* ---- EWiseMul
EWiseMul_compute(a, b) == np_ewise("mul", a, b)
multiply(a, b) == EWiseMul_compute(a, b)
\* the slip of pairing each input with its own value
EWiseMul_gradient_swapped(out_grad, node) ==
  Tuple2(multiply(out_grad, node.inputs[1]), multiply(out_grad, node.inputs[2]))
EWiseMul_gradient(out_grad, node) ==
  LET lhs == node.inputs[1]
      rhs == node.inputs[2]
  IN  Tuple2(multiply(out_grad, rhs), multiply(out_grad, lhs))

\* ---- MulScalar(scalar)
MulScalar_compute(scalar, a) == np_map("mul", a, scalar)
mul_scalar(a, scalar) == MulScalar_compute(scalar, a)
MulScalar_gradient(out_grad, node) == Tuple1(mul_scalar(out_grad, node.param.scalar))

\* ---- PowerScalar(scalar), scalar an integer
PowerScalar_compute(scalar, a) == np_map("pow", a, scalar)
power_scalar(a, scalar) == PowerScalar_compute(scalar, a)
PowerScalar_gradient(out_grad, node) ==
  One(multiply(mul_scalar(out_grad, R(node.param.scalar)),
               power_scalar(node.inputs[1], node.param.scalar - 1)))

\* ---- Negate
Negate_compute(a) == np_map("neg", a, R(0))
negate(a) == Negate_compute(a)
Negate_gradient(out_grad, node) == One(negate(out_grad))

\* ---- EWiseDiv
EWiseDiv_compute(a, b) == np_ewise("div", a, b)
divide(a, b) == EWiseDiv_compute(a, b)
EWiseDiv_gradient(out_grad, node) ==
  LET lhs == node.inputs[1]
      rhs == node.inputs[2]
  IN  Tuple2(divide(out_grad, rhs),
             divide(multiply(negate(out_grad), lhs), power_scalar(rhs, 2)))

\* ---- DivScalar(scalar)
DivScalar_compute(scalar, a) == np_map("div", a, scalar)
divide_scalar(a, scalar) == DivScalar_compute(scalar, a)
DivScalar_gradient(out_grad, node) == One(divide_scalar(out_grad, node.param.scalar))

\* ---- Transpose(axes), axes NoAxes or Axes(<<axis1, axis2>>)
Transpose_compute(axes, a) ==
  LET pair == IF axes.kind # "none" THEN axes.val ELSE <<-2, -1>>
  IN  np_swapaxes(a, pair[1], pair[2])
transpose(a, axes) == Transpose_compute(axes, a)
\* the slip of forgetting self.axes in the gradient
Transpose_gradient_default(out_grad, node) == One(transpose(out_grad, NoAxes))
Transpose_gradient(out_grad, node) == One(transpose(out_grad, node.param.axes))

\* ---- Reshape(shape)
Reshape_compute(shape, a) == np_reshape(a, shape)
reshape(a, shape) == Reshape_compute(shape, a)
Reshape_gradient(out_grad, node) == One(reshape(out_grad, node.inputs[1].shape))

\* ---- Summation(axes): __init__ wraps a single integer axis in a tuple
Summation_init(axes) == IF axes.kind = "int" THEN Axes(<<axes.val>>) ELSE axes
\* the slip of forgetting self.axes in the forward reduction
Summation_compute_all(axes, a) == np_sum(a, NoAxes)
Summation_compute(axes, a) == np_sum(a, axes)
summation(a, axes) == Summation_compute(Summation_init(axes), a)

\* ---- BroadcastTo(shape)
BroadcastTo_compute(shape, a) == np_broadcast_to(a, shape)
broadcast_to(a, shape) == BroadcastTo_compute(shape, a)
\* the slip of padding the input shape on the right
BroadcastTo_axes_rpad(shape, in_shape) ==
  LET unsqueezed == in_shape \o [i \in 1..(Len(shape) - Len(in_shape)) |-> 1]
  IN  Ascending({i \in 0..(Len(shape) - 1) : shape[i + 1] # unsqueezed[i + 1]})
\* the axes the gradient sums over, 0-based and ascending
BroadcastTo_axes(shape, in_shape) ==
  LET unsqueezed == [i \in 1..(Len(shape) - Len(in_shape)) |-> 1] \o in_shape
  IN  Ascending({i \in 0..(Len(shape) - 1) : shape[i + 1] # unsqueezed[i + 1]})
BroadcastTo_gradient(out_grad, node) ==
  LET in_shape == node.inputs[1].shape
      axes == BroadcastTo_axes(node.param.shape, in_shape)
  IN  One(reshape(summation(out_grad, Axes(axes)), in_shape))

\* the slip of inverting the membership test
Summation_out_shape_inv(axes, in_shape) ==
  [k \in 1..Len(in_shape) |->
     IF axes.kind # "none" /\ (\E j \in 1..Len(axes.val) : axes.val[j] = k - 1)
     THEN in_shape[k]
     ELSE 1]
\* the shape the Summation gradient reshapes the output-gradient into
Summation_out_shape(axes, in_shape) ==
  [k \in 1..Len(in_shape) |->
     IF axes.kind # "none" /\ (\A j \in 1..Len(axes.val) : axes.val[j] # k - 1)
     THEN in_shape[k]
     ELSE 1]
Summation_gradient(out_grad, node) ==
  LET in_shape == node.inputs[1].shape
      out_shape == Summation_out_shape(node.param.axes, in_shape)
  IN  One(broadcast_to(reshape(out_grad, out_shape), in_shape))

\* ---- MatMul
MatMul_compute(a, b) == np_matmul(a, b)
matmul(a, b) == MatMul_compute(a, b)
MatMul_gradient(out_grad, node) ==
  LET lhs == node.inputs[1]
      rhs == node.inputs[2]
      grad_1 == matmul(out_grad, transpose(rhs, NoAxes))
      grad_2 == matmul(transpose(lhs, NoAxes), out_grad)
      batch_1 == Len(grad_1.shape) - Len(lhs.shape)
      batch_2 == Len(grad_2.shape) - Len(rhs.shape)
      range(n) == [i \in 1..n |-> i - 1]
  IN  Tuple2(IF batch_1 > 0 THEN summation(grad_1, Axes(range(batch_1))) ELSE grad_1,
             IF batch_2 > 0 THEN summation(grad_2, Axes(range(batch_2))) ELSE grad_2)

\* ---- Log: the forward value is modelled where it is rational, log(1) = 0
Log_compute(a) == np_map("log", a, R(0))
Log_gradient(out_grad, node) == One(divide(out_grad, node.inputs[1]))

\* ---- Exp: the forward value is modelled where it is rational, exp(0) = 1
Exp_compute(a) == np_map("exp", a, R(0))
exp(a) == Exp_compute(a)
Exp_gradient(out_grad, node) == One(multiply(out_grad, exp(node.inputs[1])))

\* ---- ReLU: maximum(a, [0]) broadcasts a against an array of shape (1,);
\* the gradient multiplies by the mask (input > 0) cast to a number
ZeroVec == Array(<<1>>, <<R(0)>>)
ReLU_compute(a) == np_ewise("max", a, ZeroVec)
\* the slip of a threshold below zero: the mask is 1 at an element 0
ReLU_mask_ge(input) == np_map("gt", input, R(-1))
ReLU_mask(input) == np_map("gt", input, R(0))
ReLU_gradient(out_grad, node) ==
  LET input == node.inputs[1]
  IN  One(multiply(out_grad, ReLU_mask(input)))

-----------------------------------------------------------------------------
(* Inputs.                                                                 *)

\* shapes of rank lo..hi with every axis of size 1..dim and at most MaxSize
\* elements
Shapes(lo, hi, dim) ==
  {sh \in UNION {[1..r -> 1..dim] : r \in lo..hi} : Prod(sh) <= MaxSize}

Ones(shape) == Array(shape, [k \in 1..Prod(shape) |-> R(1)])
Fill(shape, v) == Array(shape, [k \in 1..Prod(shape) |-> v])
\* elements 1, 2, 3, ... in row-major order: all distinct
Iota(shape) == Array(shape, [k \in 1..Prod(shape) |-> R(k)])
\* elements v, w, v, w, ... in row-major order
Alt(shape, v, w) ==
  Array(shape, [k \in 1..Prod(shape) |-> IF k % 2 = 1 THEN v ELSE w])
AltTensors(shapes, V) == {Alt(sh, v, w) : sh \in shapes, v \in V, w \in V}

EWShapes == Shapes(0, 1, EWMaxDim)
EWVals   == {R(-1), R(0), R(2)}
GradVals == {R(-2), R(3)}
EWTensors == AltTensors(EWShapes, EWVals)
ReLUVals == {R(-2), R(-1), R(0), R(1), R(2)}
AddScalars   == {R(0), R(3)}
MulScalars   == {R(1), R(-3)}
DivScalars   == {R(2), R(-3)}
PowerScalars == {-1, 0, 1, 2, 3}

NoZero(a) == \A k \in 1..Len(a.data) : a.data[k][1] # 0
Tracked(a) == a.ok /\ \A k \in 1..Len(a.data) : a.data[k] # Untracked

\* tuples of axes of an operand of rank r, each axis -r..r-1, naming
\* distinct axes in ascending order
AxisTuples(r) ==
  {v \in UNION {[1..l -> (-r)..(r - 1)] : l \in 0..r} :
     \A i \in 1..(Len(v) - 1) : NormAxis(v[i], r) < NormAxis(v[i + 1], r)}

\* every axis argument Summation's forward accepts for rank r
SumAxesArgs(r) ==
  {NoAxes} \cup {IntAxis(i) : i \in (-r)..(r - 1)} \cup {Axes(v) : v \in AxisTuples(r)}

\* every axis pair Transpose's forward accepts for rank r
TransposeArgs(r) ==
  {NoAxes} \cup {Axes(<<i, j>>) : i \in (-r)..(r - 1), j \in (-r)..(r - 1)}

NoParam == [none |-> TRUE]

-----------------------------------------------------------------------------
(* The graph engine's two calls into the library: apply (forward, records  *)
(* a node) and the backward driver's call of gradient on that node.        *)

Init ==
  /\ pc = "idle"
  /\ tape = <<>>
  /\ grad = Err
  /\ ret = [kind |-> "none", items |-> <<>>]

Node(op, param, inputs, value) ==
  [op |-> op, param |-> param, inputs |-> inputs, value |-> value]

\* op applied to inputs (by an action enabled at "idle"); a forward that
\* raises creates no node
Apply(op, param, inputs, value) ==
  /\ Tracked(value)
  /\ tape' = <<Node(op, param, inputs, value)>>
  /\ pc' = "forward"
  /\ UNCHANGED <<grad, ret>>

\* gradient called once on the node with the output-gradient out_grad
Backprop(out_grad, result) ==
  /\ grad' = out_grad
  /\ ret' = result
  /\ pc' = "done"
  /\ UNCHANGED tape

AtNode(op) == pc = "forward" /\ Len(tape) = 1 /\ tape[1].op = op

\* output-gradients of the shape of the forward result
OutGrads(node) == AltTensors({node.value.shape}, GradVals)

ApplyEWiseAdd ==
  /\ pc = "idle"
  /\ \E a \in EWTensors, b \in EWTensors :
       Apply("EWiseAdd", NoParam, <<a, b>>, EWiseAdd_compute(a, b))
BackwardEWiseAdd ==
  /\ AtNode("EWiseAdd")
  /\ \E g \in OutGrads(tape[1]) : Backprop(g, EWiseAdd_gradient(g, tape[1]))

ApplyAddScalar ==
  /\ pc = "idle"
  /\ \E a \in EWTensors, s \in AddScalars :
       Apply("AddScalar", [scalar |-> s], <<a>>, AddScalar_compute(s, a))
BackwardAddScalar ==
  /\ AtNode("AddScalar")
  /\ \E g \in OutGrads(tape[1]) : Backprop(g, AddScalar_gradient(g, tape[1]))

ApplyEWiseMul ==
  /\ pc = "idle"
  /\ \E a \in EWTensors, b \in EWTensors :
       Apply("EWiseMul", NoParam, <<a, b>>, EWiseMul_compute(a, b))
BackwardEWiseMul ==
  /\ AtNode("EWiseMul")
  /\ \E g \in OutGrads(tape[1]) : Backprop(g, EWiseMul_gradient(g, tape[1]))

ApplyMulScalar ==
  /\ pc = "idle"
  /\ \E a \in EWTensors, s \in MulScalars :
       Apply("MulScalar", [scalar |-> s], <<a>>, MulScalar_compute(s, a))
BackwardMulScalar ==
  /\ AtNode("MulScalar")
  /\ \E g \in OutGrads(tape[1]) : Backprop(g, MulScalar_gradient(g, tape[1]))

ApplyPowerScalar ==
  /\ pc = "idle"
  /\ \E a \in EWTensors, s \in PowerScalars :
       /\ s >= 1 \/ NoZero(a)
       /\ Apply("PowerScalar", [scalar |-> s], <<a>>, PowerScalar_compute(s, a))
BackwardPowerScalar ==
  /\ AtNode("PowerScalar")
  /\ \E g \in OutGrads(tape[1]) : Backprop(g, PowerScalar_gradient(g, tape[1]))

ApplyEWiseDiv ==
  /\ pc = "idle"
  /\ \E a \in EWTensors, b \in EWTensors :
       /\ NoZero(b)
       /\ Apply("EWiseDiv", NoParam, <<a, b>>, EWiseDiv_compute(a, b))
BackwardEWiseDiv ==
  /\ AtNode("EWiseDiv")
  /\ \E g \in OutGrads(tape[1]) : Backprop(g, EWiseDiv_gradient(g, tape[1]))

ApplyDivScalar ==
  /\ pc = "idle"
  /\ \E a \in EWTensors, s \in DivScalars :
       Apply("DivScalar", [scalar |-> s], <<a>>, DivScalar_compute(s, a))
BackwardDivScalar ==
  /\ AtNode("DivScalar")
  /\ \E g \in OutGrads(tape[1]) : Backprop(g, DivScalar_gradient(g, tape[1]))

ApplyNegate ==
  /\ pc = "idle"
  /\ \E a \in EWTensors : Apply("Negate", NoParam, <<a>>, Negate_compute(a))
BackwardNegate ==
  /\ AtNode("Negate")
  /\ \E g \in OutGrads(tape[1]) : Backprop(g, Negate_gradient(g, tape[1]))

ApplyLog ==
  /\ pc = "idle"
  /\ \E sh \in EWShapes : Apply("Log", NoParam, <<Ones(sh)>>, Log_compute(Ones(sh)))
BackwardLog ==
  /\ AtNode("Log")
  /\ \E g \in OutGrads(tape[1]) : Backprop(g, Log_gradient(g, tape[1]))

ApplyExp ==
  /\ pc = "idle"
  /\ \E sh \in EWShapes :
       Apply("Exp", NoParam, <<Fill(sh, R(0))>>, Exp_compute(Fill(sh, R(0))))
BackwardExp ==
  /\ AtNode("Exp")
  /\ \E g \in OutGrads(tape[1]) : Backprop(g, Exp_gradient(g, tape[1]))

ApplyReLU ==
  /\ pc = "idle"
  /\ \E a \in AltTensors(EWShapes, ReLUVals) :
       Apply("ReLU", NoParam, <<a>>, ReLU_compute(a))
BackwardReLU ==
  /\ AtNode("ReLU")
  /\ \E g \in OutGrads(tape[1]) : Backprop(g, ReLU_gradient(g, tape[1]))

ApplyTranspose ==
  /\ pc = "idle"
  /\ \E sh \in Shapes(2, MaxRank, MaxDim) : \E axes \in TransposeArgs(Len(sh)) :
       Apply("Transpose", [axes |-> axes], <<Iota(sh)>>, Transpose_compute(axes, Iota(sh)))
\* transpose applied a second time, with the same axes, to the first result
ApplyTransposeAgain ==
  /\ AtNode("Transpose")
  /\ LET n == tape[1]
         v == Transpose_compute(n.param.axes, n.value)
     IN  /\ tape' = Append(tape, Node("Transpose", n.param, <<n.value>>, v))
         /\ pc' = "forward2"
  /\ UNCHANGED <<grad, ret>>
BackwardTranspose ==
  /\ AtNode("Transpose")
  /\ Backprop(Iota(tape[1].value.shape),
              Transpose_gradient(Iota(tape[1].value.shape), tape[1]))

ApplyReshape ==
  /\ pc = "idle"
  /\ \E sh \in Shapes(0, MaxRank, MaxDim), to \in Shapes(0, MaxRank, MaxDim) :
       Apply("Reshape", [shape |-> to], <<Iota(sh)>>, Reshape_compute(to, Iota(sh)))
BackwardReshape ==
  /\ AtNode("Reshape")
  /\ Backprop(Ones(tape[1].value.shape),
              Reshape_gradient(Ones(tape[1].value.shape), tape[1]))

ApplyBroadcastTo ==
  /\ pc = "idle"
  /\ \E sh \in Shapes(0, MaxRank, MaxDim), to \in Shapes(0, MaxRank, MaxDim) :
       Apply("BroadcastTo", [shape |-> to], <<Iota(sh)>>,
             BroadcastTo_compute(to, Iota(sh)))
BackwardBroadcastTo ==
  /\ AtNode("BroadcastTo")
  /\ Backprop(Ones(tape[1].value.shape),
              BroadcastTo_gradient(Ones(tape[1].value.shape), tape[1]))

ApplySummation ==
  /\ pc = "idle"
  /\ \E sh \in Shapes(0, MaxRank, MaxDim) : \E axes \in SumAxesArgs(Len(sh)) :
       Apply("Summation", [axes |-> Summation_init(axes)], <<Iota(sh)>>,
             summation(Iota(sh), axes))
BackwardSummation ==
  /\ AtNode("Summation")
  /\ Backprop(Ones(tape[1].value.shape),
              Summation_gradient(Ones(tape[1].value.shape), tape[1]))

ApplyMatMul ==
  /\ pc = "idle"
  /\ \E sa \in Shapes(2, MatMulMaxRank, MaxDim), sb \in Shapes(2, MatMulMaxRank, MaxDim) :
       Apply("MatMul", NoParam, <<Ones(sa), Ones(sb)>>, MatMul_compute(Ones(sa), Ones(sb)))
BackwardMatMul ==
  /\ AtNode("MatMul")
  /\ Backprop(Ones(tape[1].value.shape),
              MatMul_gradient(Ones(tape[1].value.shape), tape[1]))

-----------------------------------------------------------------------------
(* The end-to-end scenario: x of shape (m, n);                             *)
(*   y = summation(broadcast_to(reshape(x, (m,n,1)), (m,n,k)), (2,))       *)
(* forward node by node, then backward from ones_like(y) node by node.     *)

E2EReshape ==
  /\ pc = "idle"
  /\ \E m \in 1..E2EMaxM, n \in 1..E2EMaxN :
       LET x == Iota(<<m, n>>) IN
       tape' = <<Node("Reshape", [shape |-> <<m, n, 1>>], <<x>>, reshape(x, <<m, n, 1>>))>>
  /\ pc' = "e2e_reshaped"
  /\ UNCHANGED <<grad, ret>>

E2EBroadcastTo ==
  /\ pc = "e2e_reshaped"
  /\ \E k \in 1..E2EMaxK :
       LET a == tape[1].value
           to == <<a.shape[1], a.shape[2], k>>
       IN  tape' = Append(tape, Node("BroadcastTo", [shape |-> to], <<a>>,
                                      broadcast_to(a, to)))
  /\ pc' = "e2e_broadcast"
  /\ UNCHANGED <<grad, ret>>

E2ESummation ==
  /\ pc = "e2e_broadcast"
  /\ LET a == tape[2].value
         axes == Axes(<<2>>)
     IN  tape' = Append(tape, Node("Summation", [axes |-> Summation_init(axes)], <<a>>,
                                    summation(a, axes)))
  /\ pc' = "e2e_forward"
  /\ UNCHANGED <<grad, ret>>

E2EBackSummation ==
  /\ pc = "e2e_forward"
  /\ grad' = Ones(tape[3].value.shape)
  /\ ret' = Summation_gradient(grad', tape[3])
  /\ pc' = "e2e_back_sum"
  /\ UNCHANGED tape

E2EBackBroadcastTo ==
  /\ pc = "e2e_back_sum"
  /\ grad' = ret.items[1]
  /\ ret' = BroadcastTo_gradient(grad', tape[2])
  /\ pc' = "e2e_back_broadcast"
  /\ UNCHANGED tape

E2EBackReshape ==
  /\ pc = "e2e_back_broadcast"
  /\ grad' = ret.items[1]
  /\ ret' = Reshape_gradient(grad', tape[1])
  /\ pc' = "e2e_done"
  /\ UNCHANGED tape

-----------------------------------------------------------------------------
(* Specifications: one per family of operators, and Spec for all of them.  *)

NextEWise ==
  \/ ApplyEWiseAdd \/ BackwardEWiseAdd
  \/ ApplyAddScalar \/ BackwardAddScalar
  \/ ApplyEWiseMul \/ BackwardEWiseMul
  \/ ApplyMulScalar \/ BackwardMulScalar
  \/ ApplyPowerScalar \/ BackwardPowerScalar
  \/ ApplyEWiseDiv \/ BackwardEWiseDiv
  \/ ApplyDivScalar \/ BackwardDivScalar
  \/ ApplyNegate \/ BackwardNegate

NextReLU == ApplyReLU \/ BackwardReLU

NextTranspose == ApplyTranspose \/ ApplyTransposeAgain \/ BackwardTranspose

NextBroadcastTo == ApplyBroadcastTo \/ BackwardBroadcastTo

NextSummation == ApplySummation \/ BackwardSummation

NextMatMul == ApplyMatMul \/ BackwardMatMul

NextE2E ==
  \/ E2EReshape \/ E2EBroadcastTo \/ E2ESummation
  \/ E2EBackSummation \/ E2EBackBroadcastTo \/ E2EBackReshape

Next ==
  \/ NextEWise
  \/ NextReLU
  \/ NextTranspose
  \/ NextBroadcastTo
  \/ NextSummation
  \/ NextMatMul
  \/ NextE2E
  \/ ApplyReshape \/ BackwardReshape
  \/ ApplyLog \/ BackwardLog
  \/ ApplyExp \/ BackwardExp

SpecEWise       == Init /\ [][NextEWise]_vars
SpecReLU        == Init /\ [][NextReLU]_vars
SpecTranspose   == Init /\ [][NextTranspose]_vars
SpecBroadcastTo == Init /\ [][NextBroadcastTo]_vars
SpecSummation   == Init /\ [][NextSummation]_vars
SpecMatMul      == Init /\ [][NextMatMul]_vars
SpecE2E         == Init /\ [][NextE2E]_vars
Spec            == Init /\ [][Next]_vars

-----------------------------------------------------------------------------
(* The claims.                                                             *)

\* the node whose gradient the last backward step called
Called ==
  IF pc = "e2e_back_sum" THEN tape[3]
  ELSE IF pc = "e2e_back_broadcast" THEN tape[2]
  ELSE tape[1]

GradientReturned == pc \in {"done", "e2e_back_sum", "e2e_back_broadcast", "e2e_done"}

DoneAt(op) == pc = "done" /\ tape[1].op = op

\* item i of the returned gradient is an array of the shape of input i
RestoresShape(i) ==
  /\ Len(ret.items) >= i
  /\ ret.items[i].ok
  /\ ret.items[i].shape = tape[1].inputs[i].shape

\* C1: MatMul.gradient returns, for every pair of operands of rank >= 2 the
\* forward accepts, a first gradient of the shape of a and a second of the
\* shape of b.
MatMulGradientRestoresShapes ==
  DoneAt("MatMul") => RestoresShape(1) /\ RestoresShape(2)

\* C2: for every shape s and every accepted axis argument, Summation.gradient
\* builds a pre-reduction shape with size 1 at exactly the reduced axes and
\* the original size elsewhere, of the element count of the output-gradient,
\* and returns a gradient of shape s.
SummationRoundTripShape ==
  DoneAt("Summation") =>
    LET s == tape[1].inputs[1].shape
        r == Len(s)
        axes == tape[1].param.axes
        reduced == IF axes.kind = "none" THEN 0..(r - 1)
                   ELSE {NormAxis(axes.val[j], r) : j \in 1..Len(axes.val)}
        pre == Summation_out_shape(axes, s)
    IN  /\ \A i \in 0..(r - 1) : pre[i + 1] = IF i \in reduced THEN 1 ELSE s[i + 1]
        /\ Prod(pre) = Prod(grad.shape)
        /\ RestoresShape(1)

\* the axes of target t that broadcasting s to t introduced with a size
\* other than 1, or stretched from size 1
BroadcastAxes(s, t) ==
  LET d == Len(t) - Len(s) IN
  {i \in 0..(Len(t) - 1) :
     \/ i < d /\ t[i + 1] # 1
     \/ i >= d /\ s[i - d + 1] = 1 /\ t[i + 1] # 1}

\* C3: BroadcastTo.gradient sums over exactly the axes that were newly
\* introduced (with size other than 1) or stretched from size 1, and the
\* result after the final reshape has the shape of the input.
BroadcastToGradientAxes ==
  DoneAt("BroadcastTo") =>
    LET s == tape[1].inputs[1].shape
        t == tape[1].param.shape
        axes == BroadcastTo_axes(t, s)
    IN  /\ {axes[j] : j \in 1..Len(axes)} = BroadcastAxes(s, t)
        /\ Len(axes) = Cardinality(BroadcastAxes(s, t))
        /\ RestoresShape(1)

\* a new leading axis, a stretched axis and an untouched axis of size > 1
BroadcastToGradientAxesWitness ==
  /\ DoneAt("BroadcastTo")
  /\ tape[1].inputs[1].shape = <<1, 2>>
  /\ tape[1].param.shape = <<2, 2, 2>>
  /\ ret.items[1].shape = <<1, 2>>

ElementwiseOps ==
  {"EWiseAdd", "EWiseMul", "EWiseDiv", "AddScalar", "MulScalar", "DivScalar",
   "PowerScalar", "Negate"}

\* C4: every gradient an elementwise operator returns has the shape of its
\* input, for operands of matching shape and for one operand broadcast
\* against the other.
EWiseGradientShapes ==
  (pc = "done" /\ tape[1].op \in ElementwiseOps) =>
    \A i \in 1..Len(tape[1].inputs) : RestoresShape(i)

\* C5: in the end-to-end scenario with x of shape (m, n) and broadcast size
\* k, the gradient that reaches x has the shape of x and every entry k.
E2EBackwardValue ==
  pc = "e2e_done" =>
    LET x == tape[1].inputs[1]
        k == tape[2].param.shape[3]
        gx == ret.items[1]
    IN  /\ gx.ok
        /\ gx.shape = x.shape
        /\ Len(gx.data) = Prod(x.shape)
        /\ \A j \in 1..Len(gx.data) : gx.data[j] = <<k, 1>>

\* x of shape (2,3), broadcast to (2,3,4): six entries, each 4
E2EBackwardValueWitness ==
  /\ pc = "e2e_done"
  /\ tape[1].inputs[1].shape = <<2, 3>>
  /\ tape[2].param.shape = <<2, 3, 4>>
  /\ grad.shape = <<2, 3, 1>>
  /\ ret.items[1].data = [j \in 1..6 |-> <<4, 1>>]

E2EForwardCase ==
  /\ pc \in {"e2e_forward", "e2e_back_sum", "e2e_back_broadcast", "e2e_done"}
  /\ tape[1].inputs[1].shape = <<2, 3>>
  /\ tape[1].param.shape = <<2, 3, 1>>
  /\ tape[2].param.shape = <<2, 3, 4>>
  /\ tape[3].param.axes = Axes(<<2>>)

\* C6 as stated: the forward result y of the end-to-end scenario on x of
\* shape (2,3) has shape (2,4).
E2EForwardShapeAsStated ==
  E2EForwardCase => tape[3].value.shape = <<2, 4>>

\* C6 as amended: the forward result y of the end-to-end scenario on x of
\* shape (2,3) has shape (2,3): summing (2,3,4) over axis 2 removes the 4.
E2EForwardShape ==
  E2EForwardCase => tape[3].value.ok /\ tape[3].value.shape = <<2, 3>>

E2EForwardShapeWitness ==
  /\ E2EForwardCase
  /\ pc = "e2e_forward"
  /\ tape[2].value.shape = <<2, 3, 4>>

\* C7: relu's forward value is max(a, 0) element by element, and the
\* gradient is g where the input element is positive and 0 where it is
\* zero or negative.
ReLUBoundary ==
  /\ (pc \in {"forward", "done"} /\ tape[1].op = "ReLU") =>
       LET a == tape[1].inputs[1]
           y == tape[1].value
       IN  /\ y.ok
           /\ Len(y.data) = Len(a.data)
           /\ \A k \in 1..Len(a.data) :
                y.data[k] = IF a.data[k][1] > 0 THEN a.data[k] ELSE <<0, 1>>
  /\ DoneAt("ReLU") =>
       LET a == tape[1].inputs[1]
           gx == ret.items[1]
       IN  /\ gx.ok
           /\ Len(gx.data) = Len(a.data)
           /\ \A k \in 1..Len(a.data) :
                gx.data[k] = IF a.data[k][1] > 0 THEN grad.data[k] ELSE <<0, 1>>

\* an input with an element exactly 0 next to a positive one
ReLUBoundaryWitness ==
  /\ DoneAt("ReLU")
  /\ tape[1].inputs[1].data = <<<<0, 1>>, <<2, 1>>>>
  /\ tape[1].value.data = <<<<0, 1>>, <<2, 1>>>>
  /\ grad.data = <<<<3, 1>>, <<-2, 1>>>>
  /\ ret.items[1].data = <<<<0, 1>>, <<-2, 1>>>>

\* C8: transposing twice with the same axis pair gives back the array, shape
\* and elements, and Transpose.gradient returns a gradient of the shape of
\* the input.
TransposeSelfInverse ==
  /\ pc = "forward2" => tape[2].value = tape[1].inputs[1]
  /\ DoneAt("Transpose") => RestoresShape(1)

\* a swap by negative indices that moved elements and changed the shape
TransposeSelfInverseWitness ==
  /\ pc = "forward2"
  /\ tape[1].param.axes = Axes(<<-3, -1>>)
  /\ tape[1].inputs[1].shape = <<1, 2, 2>>
  /\ tape[1].value.shape = <<2, 2, 1>>
  /\ tape[1].value.data # tape[1].inputs[1].data
  /\ tape[2].value = tape[1].inputs[1]

\* C9: gradient returns a single node for a one-input operator, or a
\* sequence with one entry per input; two entries for EWiseAdd, EWiseMul,
\* EWiseDiv and MatMul.
GradientArity ==
  GradientReturned =>
    LET node == Called IN
    /\ \/ ret.kind = "node" /\ Len(node.inputs) = 1 /\ Len(ret.items) = 1
       \/ ret.kind = "tuple" /\ Len(ret.items) = Len(node.inputs)
    /\ node.op \in {"EWiseAdd", "EWiseMul", "EWiseDiv", "MatMul"} =>
         Len(node.inputs) = 2 /\ Len(ret.items) = 2

\* the one-input operator that returns a sequence: MulScalar's 1-tuple
GradientArityWitness ==
  /\ DoneAt("MulScalar")
  /\ ret.kind = "tuple"
  /\ Len(ret.items) = 1

\* q is the rational num / den (den # 0), in lowest terms
IsRatio(q, num, den) == q[2] > 0 /\ q[1] * den = num * q[2] /\ GCD(Abs(q[1]), q[2]) = 1

RECURSIVE IPow(_, _)
IPow(x, e) == IF e = 0 THEN 1 ELSE x * IPow(x, e - 1)

SameShapeCase ==
  /\ pc = "done"
  /\ tape[1].op \in ElementwiseOps
  /\ \A i \in 1..Len(tape[1].inputs) : tape[1].inputs[i].shape = grad.shape

\* C10: for same-shape inputs a, b and output-gradient g the elementwise
\* gradients are, element by element: Add (g, g); Mul (g*b, g*a);
\* Div (g/b, -g*a/b^2); MulScalar g*s; DivScalar g/s;
\* PowerScalar g*s*a^(s-1); Negate -g; AddScalar g.
VJPTable ==
  SameShapeCase =>
    LET op == tape[1].op
        n  == Len(grad.data)
        g(k) == grad.data[k][1]
        a(k) == tape[1].inputs[1].data[k][1]
        b(k) == tape[1].inputs[2].data[k][1]
        s  == tape[1].param.scalar
        d1(k) == ret.items[1].data[k]
        d2(k) == ret.items[2].data[k]
        Sized(i) == ret.items[i].ok /\ Len(ret.items[i].data) = n
    IN
    /\ Sized(1)
    /\ op \in {"EWiseAdd", "EWiseMul", "EWiseDiv"} => Len(ret.items) = 2 /\ Sized(2)
    /\ op = "EWiseAdd" =>
         \A k \in 1..n : IsRatio(d1(k), g(k), 1) /\ IsRatio(d2(k), g(k), 1)
    /\ op = "EWiseMul" =>
         \A k \in 1..n : IsRatio(d1(k), g(k) * b(k), 1) /\ IsRatio(d2(k), g(k) * a(k), 1)
    /\ op = "EWiseDiv" =>
         \A k \in 1..n : /\ IsRatio(d1(k), g(k), b(k))
                         /\ IsRatio(d2(k), -(g(k) * a(k)), b(k) * b(k))
    /\ op = "AddScalar" => \A k \in 1..n : IsRatio(d1(k), g(k), 1)
    /\ op = "MulScalar" => \A k \in 1..n : IsRatio(d1(k), g(k) * s[1], 1)
    /\ op = "DivScalar" => \A k \in 1..n : IsRatio(d1(k), g(k), s[1])
    /\ op = "PowerScalar" =>
         \A k \in 1..n :
           IF s >= 1 THEN IsRatio(d1(k), g(k) * s * IPow(a(k), s - 1), 1)
           ELSE IsRatio(d1(k), g(k) * s, IPow(a(k), 1 - s))
    /\ op = "Negate" => \A k \in 1..n : IsRatio(d1(k), -g(k), 1)

\* a quotient whose two gradients differ in every element
VJPTableWitness ==
  /\ SameShapeCase
  /\ tape[1].op = "EWiseDiv"
  /\ tape[1].inputs[1].data = <<<<-1, 1>>, <<2, 1>>>>
  /\ tape[1].inputs[2].data = <<<<2, 1>>, <<-1, 1>>>>
  /\ grad.data = <<<<3, 1>>, <<-2, 1>>>>
  /\ ret.items[1].data = <<<<3, 2>>, <<2, 1>>>>
  /\ ret.items[2].data = <<<<3, 4>>, <<4, 1>>>>
====
